---- MODULE Spec2Model ----
(***************************************************************************)
(* Model of app.py, the rainfall interpolation tool: the CSV loader        *)
(* (load_data, behind st.cache_data), the interpolator                     *)
(* (get_interpolated_values, scipy griddata with method 'linear'), the     *)
(* chart annotations (plot_evolution) and the "Calculer" button handler.   *)
(*                                                                         *)
(* Numbers are exact rationals [n, d] (the code computes in float64; the   *)
(* model idealises rounding away).  Text cells are sequences of one-       *)
(* character strings.                                                      *)
(***************************************************************************)
EXTENDS Integers, Sequences, FiniteSets, TLC

VARIABLES fs, cache, clicked, report, ret

vars == <<fs, cache, clicked, report, ret>>

(***************************************************************************)
(* Bounds of the model.                                                    *)
(***************************************************************************)
\* Largest coordinate of a map click (clicks fall on the grid 0..QMax).
QMax == 1
\* Largest number of data rows of a file in the loader specification.
MaxRows == 2

(***************************************************************************)
(* Values.                                                                 *)
(***************************************************************************)
\* Python's None and the float nan, kept apart from every other value.
\* (A number is a record [n, d] with d > 0; nan is the record with d = 0.)
None == [isa |-> "None"]
NaN == [n |-> 0, d |-> 0]

Abs(i) == IF i < 0 THEN -i ELSE i

RECURSIVE GCD(_, _)
GCD(a, b) == IF b = 0 THEN a ELSE GCD(b, a % b)

\* The rational n/d in lowest terms with a positive denominator.
Rat(n, d) ==
    LET g == GCD(Abs(n), Abs(d))
        s == IF d < 0 THEN -1 ELSE 1
    IN  [n |-> (s * n) \div g, d |-> (s * d) \div g]

RInt(i) == [n |-> i, d |-> 1]
RAdd(a, b) == Rat(a.n * b.d + b.n * a.d, a.d * b.d)
RSub(a, b) == Rat(a.n * b.d - b.n * a.d, a.d * b.d)
RMul(a, b) == Rat(a.n * b.n, a.d * b.d)
RDiv(a, b) == Rat(a.n * b.d, a.d * b.n)
RSign(a) == IF a.n > 0 THEN 1 ELSE IF a.n < 0 THEN -1 ELSE 0
RGeq(a, b) == RSign(RSub(a, b)) >= 0

RECURSIVE Pow10(_)
Pow10(k) == IF k = 0 THEN 1 ELSE 10 * Pow10(k - 1)

(***************************************************************************)
(* Configuration (app.py, lines 13-26).                                    *)
(***************************************************************************)
COL_LAT == "Latitude"
COL_LON == "Longitude"
COL_PLUVIO_MOYENNE == "PLUVIOMETRIE moyenne des 17 fichiers"
COL_PLUVIO_EXCEP == "PLUVIO EXCEPTIONNELLE moyenne des 17 fichiers"

FILES_TO_PROCESS ==
    [h \in {2020, 2030, 2050, 2100} |->
        CASE h = 2020 -> "synthese_pluviometrie_BASELINE.csv"
          [] h = 2030 -> "synthese_pluviometrie_2030.csv"
          [] h = 2050 -> "synthese_pluviometrie_2050.csv"
          [] h = 2100 -> "synthese_pluviometrie_2100.csv"]

\* sorted(FILES_TO_PROCESS.keys()): the labels are four-digit strings, so
\* their lexicographic order is the numeric order of the years.
sorted_horizons == <<2020, 2030, 2050, 2100>>

Files == {FILES_TO_PROCESS[h] : h \in DOMAIN FILES_TO_PROCESS}

(***************************************************************************)
(* Cell cleaning: str.strip(" '"), str.replace(',', '.'), pd.to_numeric    *)
(* with errors='coerce' (load_data, lines 55-58).                          *)
(***************************************************************************)
StripChars == {" ", "'"}
Digits == {"0", "1", "2", "3", "4", "5", "6", "7", "8", "9"}

DigitVal(c) ==
    CASE c = "0" -> 0 [] c = "1" -> 1 [] c = "2" -> 2 [] c = "3" -> 3
      [] c = "4" -> 4 [] c = "5" -> 5 [] c = "6" -> 6 [] c = "7" -> 7
      [] c = "8" -> 8 [] c = "9" -> 9

RECURSIVE LStrip(_)
LStrip(s) ==
    IF s # <<>> /\ Head(s) \in StripChars THEN LStrip(Tail(s)) ELSE s

RECURSIVE RStrip(_)
RStrip(s) ==
    IF s # <<>> /\ s[Len(s)] \in StripChars
    THEN RStrip(SubSeq(s, 1, Len(s) - 1))
    ELSE s

\* str.strip(" '"): removes every leading and trailing space or apostrophe.
Strip(s) == RStrip(LStrip(s))

\* str.replace(',', '.'): every comma becomes a point.
ReplaceComma(s) == [i \in DOMAIN s |-> IF s[i] = "," THEN "." ELSE s[i]]

\* The value of a string of digits read as a decimal integer.
RECURSIVE DigitsVal(_)
DigitsVal(s) ==
    IF s = <<>> THEN 0
    ELSE 10 * DigitsVal(SubSeq(s, 1, Len(s) - 1)) + DigitVal(s[Len(s)])

\* s without its decimal points.
RECURSIVE DropPoints(_)
DropPoints(s) ==
    IF s = <<>> THEN <<>>
    ELSE IF Head(s) = "." THEN DropPoints(Tail(s))
    ELSE <<Head(s)>> \o DropPoints(Tail(s))

\* An unsigned decimal literal: digits with at most one point and at least
\* one digit.
IsUnsignedDecimal(s) ==
    /\ \A i \in DOMAIN s : s[i] \in Digits \cup {"."}
    /\ Cardinality({i \in DOMAIN s : s[i] = "."}) <= 1
    /\ \E i \in DOMAIN s : s[i] \in Digits

UnsignedVal(s) ==
    LET pts == {i \in DOMAIN s : s[i] = "."}
        frac == IF pts = {} THEN 0 ELSE Len(s) - (CHOOSE i \in pts : TRUE)
    IN  Rat(DigitsVal(DropPoints(s)), Pow10(frac))

\* pd.to_numeric(..., errors='coerce') on one string: the number it
\* denotes, NaN for the text "nan" and for whatever does not parse.
\* (Exponents and infinities are outside the alphabet of the model.)
to_numeric(s) ==
    IF s # <<>> /\ Head(s) \in {"-", "+"}
    THEN IF IsUnsignedDecimal(Tail(s))
         THEN IF Head(s) = "-"
              THEN RSub(RInt(0), UnsignedVal(Tail(s)))
              ELSE UnsignedVal(Tail(s))
         ELSE NaN
    ELSE IF IsUnsignedDecimal(s) THEN UnsignedVal(s) ELSE NaN

\* read_csv leaves an empty field as a missing value, and astype(str)
\* turns a missing value into the text "nan".
astype_str(cell) == IF cell = <<>> THEN <<"n", "a", "n">> ELSE cell

\* Lines 55-58 on one cell.
CleanCell(cell) == to_numeric(ReplaceComma(Strip(astype_str(cell))))

(***************************************************************************)
(* Files and data frames.                                                  *)
(*                                                                         *)
(* A file is [exists, parses, columns, rows]: whether the path exists,     *)
(* whether pd.read_csv returns (it raises on an empty or undecodable       *)
(* file), the column names of its header and its data rows, each a         *)
(* function from column name to the text of the cell.  A file written with *)
(* another separator parses into a header without the expected names.      *)
(*                                                                         *)
(* A DataFrame is [columns, rows], each row [idx, cells]: idx is the       *)
(* row label (the position in the file, from 0), which dropna keeps.       *)
(***************************************************************************)
RequiredCols == {COL_LAT, COL_LON, COL_PLUVIO_MOYENNE, COL_PLUVIO_EXCEP}

cols_to_clean == <<COL_PLUVIO_MOYENNE, COL_PLUVIO_EXCEP, COL_LAT, COL_LON>>

Range(s) == {s[i] : i \in DOMAIN s}

\* pd.read_csv(file_path, sep=';', decimal=','), for a file that parses.
read_csv(file) ==
    [columns |-> file.columns,
     rows |-> [i \in DOMAIN file.rows |->
                  [idx |-> i - 1, cells |-> file.rows[i]]]]

\* Lines 52-58: every column of cols_to_clean present in the frame is
\* converted cell by cell; the other columns are left as they are.
clean_columns(df) ==
    [columns |-> df.columns,
     rows |-> [i \in DOMAIN df.rows |->
                  [idx |-> df.rows[i].idx,
                   cells |-> [c \in df.columns |->
                                 IF c \in Range(cols_to_clean)
                                 THEN CleanCell(df.rows[i].cells[c])
                                 ELSE df.rows[i].cells[c]]]]]

\* A row with no missing value in the columns of subset.
Complete(row, subset) == \A c \in subset : row.cells[c] # NaN

\* dropna that overlooks the exceptional metric.
dropna_without_excep(df, subset) ==
    IF ~(subset \subseteq df.columns)
    THEN [kind |-> "raise", exc |-> "KeyError"]
    ELSE LET Keep(row) == Complete(row, subset \ {COL_PLUVIO_EXCEP})
         IN  [kind |-> "return",
              value |-> [columns |-> df.columns,
                         rows |-> SelectSeq(df.rows, Keep)]]

\* df.dropna(subset=...): KeyError when a column of subset is not in the
\* frame, else the rows complete on subset, in their order.
dropna(df, subset) ==
    IF ~(subset \subseteq df.columns)
    THEN [kind |-> "raise", exc |-> "KeyError"]
    ELSE LET Keep(row) == Complete(row, subset)
         IN  [kind |-> "return",
              value |-> [columns |-> df.columns,
                         rows |-> SelectSeq(df.rows, Keep)]]

\* load_data without its cache (lines 35-62): what the body returns or
\* raises on the file found at the path.
load_data(file) ==
    IF ~file.exists THEN [kind |-> "return", value |-> None]
    ELSE IF ~file.parses THEN [kind |-> "return", value |-> None]
    ELSE dropna(clean_columns(read_csv(file)), RequiredCols)

(***************************************************************************)
(* The files the model draws from.                                         *)
(***************************************************************************)
Row(lat, lon, moy, exc) ==
    [c \in RequiredCols |->
        CASE c = COL_LAT -> lat
          [] c = COL_LON -> lon
          [] c = COL_PLUVIO_MOYENNE -> moy
          [] c = COL_PLUVIO_EXCEP -> exc]

Table(rows) ==
    [exists |-> TRUE, parses |-> TRUE, columns |-> RequiredCols, rows |-> rows]

\* No file at the path.
Absent == [exists |-> FALSE, parses |-> FALSE, columns |-> {}, rows |-> <<>>]

\* A file read_csv raises on (empty, or not decodable).
Unreadable == [exists |-> TRUE, parses |-> FALSE, columns |-> {}, rows |-> <<>>]

\* A file written with ',' as separator: read with sep=';' it has a single
\* column, named by the whole header line.
MergedHeader == "Latitude,Longitude,PLUVIOMETRIE moyenne des 17 fichiers,PLUVIO EXCEPTIONNELLE moyenne des 17 fichiers"

WrongSeparator ==
    [exists |-> TRUE, parses |-> TRUE, columns |-> {MergedHeader},
     rows |-> <<[c \in {MergedHeader} |-> <<"0", ",", "0", ",", "1", ",", "2">>]>>]

\* Three stations at (0,0), (1,0), (0,1), mean rainfall 100 everywhere, in
\* the locale's formats, and one row whose mean does not parse.
TableA ==
    Table(<<Row(<<"0">>, <<"0">>, <<"1", "0", "0">>, <<"1", "2", ",", "5">>),
            Row(<<"1">>, <<"0", ",", "0">>, <<" ", "'", "1", "0", "0">>, <<" ", "'", "1", "2", ",", "5">>),
            Row(<<"1">>, <<"1">>, <<"a", "b", "c">>, <<"3", "0">>),
            Row(<<"0">>, <<"1">>, <<"1", "0", "0", ",", "0">>, <<"2", "0">>)>>)

\* The stations of TableA with a mean rainfall of zero.
TableZ ==
    Table(<<Row(<<"0">>, <<"0">>, <<"0">>, <<"5">>),
            Row(<<"1">>, <<"0">>, <<"0", ",", "0">>, <<"5">>),
            Row(<<"0">>, <<"1">>, <<"0">>, <<"1", "0">>)>>)

\* Four cocircular stations at the corners of the square (0,0)-(2,2).
TableSq ==
    Table(<<Row(<<"0">>, <<"0">>, <<"1", "2", "0">>, <<"1", "0">>),
            Row(<<"2">>, <<"0">>, <<"1", "2", "0">>, <<"2", "0">>),
            Row(<<"0">>, <<"2">>, <<"1", "2", "0">>, <<"2", "0">>),
            Row(<<"2">>, <<"2">>, <<"2", "4", "0">>, <<"4", "0">>)>>)

\* Three collinear stations.
TableCol ==
    Table(<<Row(<<"0">>, <<"0">>, <<"1", "0">>, <<"2", "0">>),
            Row(<<"1">>, <<"1">>, <<"1", "0">>, <<"2", "0">>),
            Row(<<"2">>, <<"2">>, <<"1", "0">>, <<"2", "0">>)>>)

\* Two stations.
TableTwo ==
    Table(<<Row(<<"0">>, <<"0">>, <<"1", "0">>, <<"2", "0">>),
            Row(<<"1">>, <<"0">>, <<"1", "0">>, <<"2", "0">>)>>)

\* A file whose every row is incomplete.
TableBad ==
    Table(<<Row(<<"0">>, <<"0">>, <<>>, <<"2", "0">>),
            Row(<<"1">>, <<"x">>, <<"1", "0">>, <<"2", "0">>)>>)

FilePool ==
    {Absent, Unreadable, WrongSeparator, TableA, TableZ, TableSq, TableCol,
     TableTwo, TableBad}



\* load_data tabulated over the files of FilePool: load_data(file) for each,
\* computed once.
load_data_table == [file \in FilePool |-> load_data(file)]

\* The call of load_data's body on a file.
call_load_data(file) ==
    IF file \in FilePool THEN load_data_table[file] ELSE load_data(file)

\* @st.cache_data (line 34): the cache is keyed by the argument, the path
\* string.  A hit returns the stored value without running the body; a miss
\* runs the body and stores what it returns; an exception is not stored.
NotCached == [isa |-> "NotCached"]

cached_load_data(c, path, filesys) ==
    IF c[path] # NotCached
    THEN [outcome |-> [kind |-> "return", value |-> c[path]], cache |-> c]
    ELSE LET o == call_load_data(filesys[path])
         IN  [outcome |-> o,
              cache |-> IF o.kind = "return"
                        THEN [c EXCEPT ![path] = o.value]
                        ELSE c]

(***************************************************************************)
(* Interpolation (get_interpolated_values, lines 65-88).                   *)
(*                                                                         *)
(* griddata(points, values, xi, method='linear', fill_value=nan) builds    *)
(* the Delaunay triangulation of the points (Qhull), finds the triangle    *)
(* holding xi and returns the barycentric combination of the values at its *)
(* vertices, or fill_value when no triangle holds xi.  Qhull raises when   *)
(* there are fewer than three points or when all points are collinear.     *)
(* Which Delaunay triangulation Qhull builds of cocircular points is not   *)
(* specified: every triangle with no data point strictly inside its        *)
(* circumcircle may be the one that holds xi.                              *)
(***************************************************************************)
\* The map clicks: the points of the grid 0..QMax x 0..QMax.
ClickPoints == {[lat |-> RInt(x), lon |-> RInt(y)] : x \in 0..QMax, y \in 0..QMax}

\* np.array([target_lat, target_lon]) (line 74).
target_point(click) == <<click.lat, click.lon>>

PointOf(row) == <<row.cells[COL_LAT], row.cells[COL_LON]>>

\* Twice the signed area of the triangle a, b, c.
Cross(a, b, c) ==
    RSub(RMul(RSub(b[1], a[1]), RSub(c[2], a[2])),
         RMul(RSub(b[2], a[2]), RSub(c[1], a[1])))

Orient(a, b, c) == RSign(Cross(a, b, c))

\* q lies in the closed triangle a, b, c.
InTriangle(q, a, b, c) ==
    LET s1 == Orient(a, b, q)
        s2 == Orient(b, c, q)
        s3 == Orient(c, a, q)
    IN  \/ (s1 >= 0 /\ s2 >= 0 /\ s3 >= 0)
        \/ (s1 =< 0 /\ s2 =< 0 /\ s3 =< 0)

RSq(a) == RMul(a, a)

\* The sign of the in-circle determinant of a, b, c and p.
InCircleDet(a, b, c, p) ==
    LET ax == RSub(a[1], p[1])
        ay == RSub(a[2], p[2])
        bx == RSub(b[1], p[1])
        by == RSub(b[2], p[2])
        cx == RSub(c[1], p[1])
        cy == RSub(c[2], p[2])
        al == RAdd(RSq(ax), RSq(ay))
        bl == RAdd(RSq(bx), RSq(by))
        cl == RAdd(RSq(cx), RSq(cy))
    IN  RSign(RAdd(RAdd(RMul(ax, RSub(RMul(by, cl), RMul(bl, cy))),
                        RMul(ay, RSub(RMul(bl, cx), RMul(bx, cl)))),
                   RMul(al, RSub(RMul(bx, cy), RMul(by, cx)))))

\* p lies strictly inside the circle through a, b, c.
StrictlyInCircle(a, b, c, p) == InCircleDet(a, b, c, p) * Orient(a, b, c) > 0

Triples(n) == {t \in (1..n) \X (1..n) \X (1..n) : t[1] < t[2] /\ t[2] < t[3]}

\* The triangles a Delaunay triangulation of pts may contain.
DelaunayTriangles(pts) ==
    {t \in Triples(Len(pts)) :
        /\ Orient(pts[t[1]], pts[t[2]], pts[t[3]]) # 0
        /\ \A i \in DOMAIN pts :
              ~StrictlyInCircle(pts[t[1]], pts[t[2]], pts[t[3]], pts[i])}

\* Qhull's failure: no three points span a triangle.
QhullFails(pts) ==
    \A t \in Triples(Len(pts)) : Orient(pts[t[1]], pts[t[2]], pts[t[3]]) = 0

\* The barycentric combination of the values vals at the vertices of t.
Barycentric(pts, vals, t, q) ==
    LET a == pts[t[1]]
        b == pts[t[2]]
        c == pts[t[3]]
        area == Cross(a, b, c)
        wa == RDiv(Cross(q, b, c), area)
        wb == RDiv(Cross(a, q, c), area)
        wc == RDiv(Cross(a, b, q), area)
    IN  RAdd(RAdd(RMul(wa, vals[t[1]]), RMul(wb, vals[t[2]])),
             RMul(wc, vals[t[3]]))

\* The triangles of the triangulation that hold q.
Holding(pts, q) ==
    {t \in DelaunayTriangles(pts) :
        InTriangle(q, pts[t[1]], pts[t[2]], pts[t[3]])}

\* griddata(points, values, q, method='linear', fill_value=nan).item(),
\* given the triangle found for q (NoTriangle when there is none).
NoTriangle == <<0, 0, 0>>

\* griddata that extrapolates with the first station's value.
griddata_extrapolating(pts, vals, q, t) ==
    IF t = NoTriangle THEN vals[1] ELSE Barycentric(pts, vals, t, q)

griddata(pts, vals, q, t) ==
    IF t = NoTriangle THEN NaN ELSE Barycentric(pts, vals, t, q)

\* get_interpolated_values with nan for a set of stations Qhull fails on.
get_interpolated_values_nan_on_failure(df, q) ==
    IF df = None \/ df.rows = <<>> THEN {None}
    ELSE LET pts == [i \in DOMAIN df.rows |-> PointOf(df.rows[i])]
         IN  IF QhullFails(pts)
             THEN {[moyenne |-> NaN, exceptionnelle |-> NaN]}
             ELSE {[moyenne |-> griddata(pts,
                        [i \in DOMAIN df.rows |-> df.rows[i].cells[COL_PLUVIO_MOYENNE]], q, t),
                    exceptionnelle |-> griddata(pts,
                        [i \in DOMAIN df.rows |-> df.rows[i].cells[COL_PLUVIO_EXCEP]], q, t)] :
                      t \in IF Holding(pts, q) = {} THEN {NoTriangle}
                            ELSE Holding(pts, q)}

\* The set of results get_interpolated_values(df, lat, lon) can return:
\* None for no frame, an empty frame or an exception inside the try block,
\* else the two interpolated metrics.
get_interpolated_values(df, q) ==
    IF df = None \/ df.rows = <<>> THEN {None}
    ELSE LET pts == [i \in DOMAIN df.rows |-> PointOf(df.rows[i])]
             values_moyenne ==
                 [i \in DOMAIN df.rows |-> df.rows[i].cells[COL_PLUVIO_MOYENNE]]
             values_excep ==
                 [i \in DOMAIN df.rows |-> df.rows[i].cells[COL_PLUVIO_EXCEP]]
             found == IF Holding(pts, q) = {} THEN {NoTriangle}
                      ELSE Holding(pts, q)
         IN  IF QhullFails(pts) THEN {None}
             ELSE {[moyenne |-> griddata(pts, values_moyenne, q, t),
                    exceptionnelle |-> griddata(pts, values_excep, q, t)] :
                      t \in found}

\* The frames load_data makes of the files of FilePool, and
\* get_interpolated_values tabulated over them and the map clicks.
PoolFrames ==
    {load_data_table[file].value :
        file \in {g \in FilePool : /\ load_data_table[g].kind = "return"
                                    /\ load_data_table[g].value # None}}

interpolation_table ==
    [df \in PoolFrames |->
        [p \in ClickPoints |-> get_interpolated_values(df, target_point(p))]]

\* The call get_interpolated_values(df_data, user_lat, user_lon) for the
\* clicked point p.
call_get_interpolated_values(df, p) ==
    IF df \in PoolFrames /\ p \in ClickPoints
    THEN interpolation_table[df][p]
    ELSE get_interpolated_values(df, target_point(p))

(***************************************************************************)
(* Chart annotations (plot_evolution, lines 91-170).  The figure is kept   *)
(* as its years, its values and the text labels of its points; colours and *)
(* axes are left to matplotlib.                                            *)
(***************************************************************************)
\* list.sort(key=lambda x: x['year']): a stable insertion sort.
RECURSIVE InsertByYear(_, _)
InsertByYear(d, s) ==
    IF s = <<>> THEN <<d>>
    ELSE IF d.year < Head(s).year THEN <<d>> \o s
    ELSE <<Head(s)>> \o InsertByYear(d, Tail(s))

RECURSIVE SortByYear(_)
SortByYear(s) ==
    IF s = <<>> THEN <<>>
    ELSE InsertByYear(s[Len(s)], SortByYear(SubSeq(s, 1, Len(s) - 1)))

\* The annotation of the reference point (line 117) carries no percentage.
NoPct == [isa |-> "NoPct"]

\* Lines 116-130: the label of the point (x, y) given ref_value.
text_label(x, y, ref_value) ==
    IF x = 2020
    THEN [year |-> x, y |-> y, pct |-> NoPct, sign |-> "", color |-> "black"]
    ELSE LET pct == IF ref_value # RInt(0)
                    THEN RMul(RDiv(RSub(y, ref_value), ref_value), RInt(100))
                    ELSE RInt(0)
         IN  [year |-> x, y |-> y, pct |-> pct,
              sign |-> IF RGeq(pct, RInt(0)) THEN "+" ELSE "",
              color |-> IF RGeq(pct, RInt(0)) THEN "green" ELSE "red"]

\* plot_evolution(data_list, metric_key, ...): the list sorted in place and
\* the figure.
plot_evolution(data_list, metric_key) ==
    LET sorted == SortByYear(data_list)
        years == [i \in DOMAIN sorted |-> sorted[i].year]
        values == [i \in DOMAIN sorted |-> sorted[i][metric_key]]
        ref_value == IF Len(values) > 0 THEN values[1] ELSE RInt(1)
    IN  [data_list |-> sorted,
         fig |-> [metric |-> metric_key, years |-> years, values |-> values,
                  labels |-> [i \in DOMAIN sorted |->
                                 text_label(years[i], values[i], ref_value)]]]

(***************************************************************************)
(* The button handler (lines 218-289).                                     *)
(***************************************************************************)
\* What the loop keeps from one horizon to the next: the loader's cache,
\* the lines written to the page, plot_data, all_success, and the exception
\* that ended the script run, if any.
LoopStart(c) ==
    [cache |-> c, lines |-> <<>>, plot_data |-> <<>>, all_success |-> TRUE,
     exception |-> None]

\* One iteration of the loop (lines 235-261) for sorted_horizons[i]: the
\* set of states it can leave the loop in.
Iteration(i, acc, filesys, q) ==
    LET horizon == sorted_horizons[i]
        filename == FILES_TO_PROCESS[horizon]
        ld == cached_load_data(acc.cache, filename, filesys)
        df_data == ld.outcome.value
        Line(kind, data) ==
            [horizon |-> horizon, kind |-> kind, filename |-> filename,
             data |-> data]
    IN  IF ld.outcome.kind = "raise"
        THEN {[acc EXCEPT !.exception =
                              [horizon |-> horizon, exc |-> ld.outcome.exc]]}
        ELSE IF df_data # None
        THEN {IF data # None
              THEN IF data.moyenne = NaN
                   THEN [acc EXCEPT
                           !.cache = ld.cache,
                           !.lines = Append(@, Line("warning: Extrapolation impossible (hors zone).", data))]
                   ELSE [acc EXCEPT
                           !.cache = ld.cache,
                           !.lines = Append(@, Line("success: PLUVIOMETRIE moyenne, info: PLUVIO EXCEPTIONNELLE", data)),
                           !.plot_data = Append(@,
                               [year |-> horizon,
                                moyenne |-> data.moyenne,
                                exceptionnelle |-> data.exceptionnelle])]
              ELSE [acc EXCEPT
                      !.cache = ld.cache,
                      !.lines = Append(@, Line("error: Erreur de calcul.", None)),
                      !.all_success = FALSE] :
                 data \in call_get_interpolated_values(df_data, q)}
        ELSE {[acc EXCEPT
                 !.cache = ld.cache,
                 !.lines = Append(@, Line("error: Fichier introuvable", None)),
                 !.all_success = FALSE]}

\* The loop from its i-th iteration on: an uncaught exception ends the
\* script run, and the later horizons are not processed.
RECURSIVE Loop(_, _, _, _)
Loop(i, acc, filesys, q) ==
    IF i > Len(sorted_horizons) \/ acc.exception # None THEN {acc}
    ELSE UNION {Loop(i + 1, a, filesys, q) : a \in Iteration(i, acc, filesys, q)}

\* The charts drawn whenever some horizon gave a value.
charts_without_all_success(acc) ==
    IF acc.exception = None /\ Len(acc.plot_data) > 0
    THEN LET p1 == plot_evolution(acc.plot_data, "moyenne")
             p2 == plot_evolution(p1.data_list, "exceptionnelle")
         IN  <<p1.fig, p2.fig>>
    ELSE <<>>

\* Lines 264-289: the charts, drawn when every horizon succeeded and some
\* horizon gave a value.
charts(acc) ==
    IF acc.exception = None /\ acc.all_success /\ Len(acc.plot_data) > 0
    THEN LET p1 == plot_evolution(acc.plot_data, "moyenne")
             p2 == plot_evolution(p1.data_list, "exceptionnelle")
         IN  <<p1.fig, p2.fig>>
    ELSE <<>>

\* What the page shows after the handler ran to its end or to an exception.
Page(acc, q) ==
    [status |-> IF acc.exception = None THEN "results" ELSE "exception",
     query |-> q,
     lines |-> acc.lines,
     plot_data |-> acc.plot_data,
     all_success |-> acc.all_success,
     exception |-> acc.exception,
     charts |-> charts(acc)]

NoReport == [status |-> "none"]


(***************************************************************************)
(* The application: the page's session state, the loader's cache, the      *)
(* files on disk and what the page shows.                                  *)
(***************************************************************************)
EmptyCache == [f \in Files |-> NotCached]

Init ==
    /\ fs \in [Files -> FilePool]
    /\ cache = EmptyCache
    /\ clicked = None
    /\ report = NoReport
    /\ ret = None

\* A click on the map (lines 204-209): the point is stored and the script
\* reruns, with the button not pressed, so no result is on the page.
Click(p) ==
    /\ clicked' = p
    /\ report' = NoReport
    /\ UNCHANGED <<fs, cache, ret>>

\* The button pressed before any click (lines 220-221).
ComputeNoClick ==
    /\ clicked = None
    /\ report' = [status |-> "warning: Veuillez d'abord cliquer sur la carte."]
    /\ UNCHANGED <<fs, cache, clicked, ret>>

\* The button pressed with a point selected (lines 222-289).
Compute ==
    /\ clicked # None
    /\ \E acc \in Loop(1, LoopStart(cache), fs, clicked) :
          /\ cache' = acc.cache
          /\ report' = Page(acc, clicked)
    /\ UNCHANGED <<fs, clicked, ret>>

Next ==
    \/ \E p \in ClickPoints : Click(p)
    \/ ComputeNoClick
    \/ Compute

Spec == Init /\ [][Next]_vars

(***************************************************************************)
(* The loader on its own: calls of load_data (through its cache) on files  *)
(* of every content, and files that change between the calls.              *)
(***************************************************************************)
\* One call load_data(path): ret keeps the argument, the file found at the
\* path when the call was made, and what the caller got.
Load(path) ==
    LET r == cached_load_data(cache, path, fs)
    IN  /\ cache' = r.cache
        /\ ret' = [path |-> path, source |-> fs[path], outcome |-> r.outcome]
        /\ UNCHANGED <<fs, clicked, report>>

\* The file at the path is created, removed or replaced.
FileChange(path, new) ==
    /\ new # fs[path]
    /\ fs' = [fs EXCEPT ![path] = new]
    /\ UNCHANGED <<cache, clicked, report, ret>>

\* The cells and rows of the files the loader is run on: in each column a
\* cell in the locale's format and a cell that is missing or is no number.
LatCells == {<<"1", ",", "5">>, <<"x">>}
LonCells == {<<"'", "0", ",", "5", "'">>, <<>>}
MoyCells == {<<"1", "2", ",", "5">>, <<" ", "'", "7">>, <<"a", "b", "c">>}
ExcCells == {<<"1", "2", ",", "5">>, <<" ", "'", "7">>, <<" ">>}

RowPool ==
    {Row(lat, lon, moy, exc) :
        lat \in LatCells, lon \in LonCells,
        moy \in MoyCells, exc \in ExcCells}

RowSeqs == UNION {[1..n -> RowPool] : n \in 0..MaxRows}

LoadPath == FILES_TO_PROCESS[2020]

InitLoad ==
    /\ \E rows \in RowSeqs :
          fs = [f \in Files |-> IF f = LoadPath THEN Table(rows) ELSE Absent]
    /\ cache = EmptyCache
    /\ clicked = None
    /\ report = NoReport
    /\ ret = None

NextLoad == \E f \in {LoadPath} : Load(f)

SpecLoad == InitLoad /\ [][NextLoad]_vars

\* Two paths whose files change while the application runs.
EnvPaths == {FILES_TO_PROCESS[2020], FILES_TO_PROCESS[2030]}

EnvPool == {Absent, Unreadable, WrongSeparator, TableA, TableZ}

InitEnv ==
    /\ \E content \in [EnvPaths -> EnvPool] :
          fs = [f \in Files |-> IF f \in EnvPaths THEN content[f] ELSE Absent]
    /\ cache = EmptyCache
    /\ clicked = None
    /\ report = NoReport
    /\ ret = None

NextEnv ==
    \/ \E f \in EnvPaths : Load(f)
    \/ \E f \in EnvPaths, new \in EnvPool : FileChange(f, new)

SpecEnv == InitEnv /\ [][NextEnv]_vars

(***************************************************************************)
(* Properties.                                                             *)
(***************************************************************************)
\* The handler ran its loop (to its end, or to an uncaught exception).
Ran == report.status \in {"results", "exception"}

ShowsValues(line) ==
    line.kind = "success: PLUVIOMETRIE moyenne, info: PLUVIO EXCEPTIONNELLE"
ShowsHorsZone(line) ==
    line.kind = "warning: Extrapolation impossible (hors zone)."
ShowsErreurCalcul(line) == line.kind = "error: Erreur de calcul."
ShowsIntrouvable(line) == line.kind = "error: Fichier introuvable"
Failed(line) == ShowsErreurCalcul(line) \/ ShowsIntrouvable(line)

\* The Dataset the loop had for a line: the frame load_data gave for its file.
HasDataset(line) ==
    cache[line.filename] # NotCached /\ cache[line.filename] # None
Stations(line) ==
    [i \in DOMAIN cache[line.filename].rows |->
        PointOf(cache[line.filename].rows[i])]

\* Some three stations are not collinear.
Spans(pts) ==
    \E t \in Triples(Len(pts)) : Orient(pts[t[1]], pts[t[2]], pts[t[3]]) # 0

\* q lies in the convex hull of pts: in the triangle of some three of them.
InHull(q, pts) ==
    \E t \in Triples(Len(pts)) :
        /\ Orient(pts[t[1]], pts[t[2]], pts[t[3]]) # 0
        /\ InTriangle(q, pts[t[1]], pts[t[2]], pts[t[3]])

Plotted(h) == \E j \in DOMAIN report.plot_data : report.plot_data[j].year = h

OutOfCoverage == [moyenne |-> NaN, exceptionnelle |-> NaN]

\* A percentage delta reported as undefined.
Undefined == [isa |-> "Undefined"]

HorizonFile(h) == fs[FILES_TO_PROCESS[h]]

\* A file that holds the expected delimited text.
WellFormed(file) ==
    file.exists /\ file.parses /\ RequiredCols \subseteq file.columns

\* C1: in a run of the handler in which the load of some horizon fails
\* (its file is missing or unreadable), every horizon whose file is well
\* formed is still loaded and reported: no failure at one horizon skips or
\* stops the processing of another.
C1_EveryHorizonProcessed ==
    (Ran /\ \E h \in DOMAIN FILES_TO_PROCESS :
                ~HorizonFile(h).exists \/ ~HorizonFile(h).parses)
    => \A h \in DOMAIN FILES_TO_PROCESS :
          WellFormed(HorizonFile(h))
          => \E i \in DOMAIN report.lines :
                /\ report.lines[i].horizon = h
                /\ ~ShowsIntrouvable(report.lines[i])

\* C2 as claimed: when a horizon fails and another gives a value, the
\* charts are still drawn, for the horizons that gave a value.
SucceededYears ==
    LET ok == SelectSeq(report.lines, ShowsValues)
    IN  [i \in DOMAIN ok |-> ok[i].horizon]

C2_ChartsDespiteFailure ==
    (/\ report.status = "results"
     /\ \E i \in DOMAIN report.lines : Failed(report.lines[i])
     /\ \E i \in DOMAIN report.lines : ShowsValues(report.lines[i]))
    => /\ Len(report.charts) = 2
       /\ \A c \in DOMAIN report.charts : report.charts[c].years = SucceededYears

\* C2 as amended: the charts are drawn exactly when the run ended without
\* an exception, no horizon failed and some horizon gave a value; they then
\* hold the horizons that gave a value.  A failed horizon leaves no chart.
C2_ChartsOnlyWhenAllSucceed ==
    Ran =>
       /\ (report.charts # <<>>) <=>
             (/\ report.status = "results"
              /\ \A i \in DOMAIN report.lines : ~Failed(report.lines[i])
              /\ \E i \in DOMAIN report.lines : ShowsValues(report.lines[i]))
       /\ report.charts # <<>> =>
             /\ Len(report.charts) = 2
             /\ \A c \in DOMAIN report.charts :
                   report.charts[c].years = SucceededYears

C2_Witness ==
    /\ report.status = "results"
    /\ \E i \in DOMAIN report.lines : Failed(report.lines[i])
    /\ \E i \in DOMAIN report.lines : ShowsValues(report.lines[i])
    /\ report.charts = <<>>

C4_LoadNeverRaises ==
    ret # None =>
       /\ ret.outcome.kind = "return"
       /\ (ret.source.exists /\ ~WellFormed(ret.source))
          => ret.outcome.value = None

\* C5: a missing file and a file that cannot be parsed give different
\* outcomes of load_data and different messages.
C5_FailureKindsDistinct ==
    Ran => \A i, j \in DOMAIN report.lines :
              (/\ ~fs[report.lines[i].filename].exists
               /\ fs[report.lines[j].filename].exists
               /\ ~fs[report.lines[j].filename].parses)
              => /\ report.lines[i].kind # report.lines[j].kind
                 /\ cache[report.lines[i].filename] # cache[report.lines[j].filename]

\* C6: the frame load_data returns holds exactly the rows of the file whose
\* four required cells are numbers, as those numbers, in the file's order;
\* a cell that is no number does not abort the load.
ExpectedNumber(cell) ==
    CASE cell = <<"1", ",", "5">> -> Rat(3, 2)
      [] cell = <<"'", "0", ",", "5", "'">> -> Rat(1, 2)
      [] cell = <<"1", "2", ",", "5">> -> Rat(25, 2)
      [] cell = <<" ", "'", "7">> -> RInt(7)
      [] OTHER -> NaN

C6_OnlyCompleteRowsKept ==
    ret # None =>
       /\ ret.outcome.kind = "return"
       /\ ret.outcome.value # None
       /\ LET raw == ret.source.rows
              out == ret.outcome.value.rows
              kept == {i \in DOMAIN raw :
                          \A c \in RequiredCols : ExpectedNumber(raw[i][c]) # NaN}
          IN  /\ Len(out) = Cardinality(kept)
              /\ \A j \in DOMAIN out :
                    /\ out[j].idx + 1 \in kept
                    /\ \A c \in RequiredCols :
                          out[j].cells[c] = ExpectedNumber(raw[out[j].idx + 1][c])
              /\ \A j, k \in DOMAIN out : j < k => out[j].idx < out[k].idx

\* A load of two rows that drops the first, whose mean is no number, and
\* keeps the second.
C6_Witness ==
    /\ ret # None
    /\ Len(ret.source.rows) = 2
    /\ ret.source.rows[1][COL_PLUVIO_MOYENNE] = <<"a", "b", "c">>
    /\ ret.outcome.kind = "return"
    /\ Len(ret.outcome.value.rows) = 1
    /\ ret.outcome.value.rows[1].idx = 1

\* C7: with a baseline (2020) value of zero the delta of every other
\* horizon is reported as undefined; otherwise it is
\* (value - baseline) / baseline * 100.
BaselineIndex(fig) == CHOOSE i \in DOMAIN fig.years : fig.years[i] = 2020

C7_ZeroBaselineUndefined ==
    Ran => \A c \in DOMAIN report.charts :
              LET fig == report.charts[c]
              IN  (\E i \in DOMAIN fig.years : fig.years[i] = 2020)
                  => \A j \in DOMAIN fig.years :
                        fig.years[j] # 2020 =>
                           LET b == fig.values[BaselineIndex(fig)]
                           IN  IF b = RInt(0)
                               THEN fig.labels[j].pct = Undefined
                               ELSE fig.labels[j].pct =
                                       RMul(RDiv(RSub(fig.values[j], b), b), RInt(100))

\* C8: when the baseline horizon (2020) is out of coverage, no percentage
\* delta is computed for the other horizons.
C8_NoBaselineNoDelta ==
    Ran => \A c \in DOMAIN report.charts :
              LET fig == report.charts[c]
              IN  (\A i \in DOMAIN fig.years : fig.years[i] # 2020)
                  => \A j \in DOMAIN fig.years : fig.labels[j].pct = Undefined

\* C9: every call of load_data returns what an uncached load of the file
\* then at the path returns (stated for the files an uncached load returns
\* a result for).
C9_CacheTransparent ==
    (ret # None /\ load_data(ret.source).kind = "return")
    => ret.outcome = load_data(ret.source)

\* C10: for a Dataset with three stations not collinear and a point outside
\* their convex hull, both metrics are nan, the horizon is shown as out of
\* zone and it is not plotted.
C10_OutsideHullIsOutOfCoverage ==
    Ran => \A i \in DOMAIN report.lines :
              (/\ HasDataset(report.lines[i])
               /\ Spans(Stations(report.lines[i]))
               /\ ~InHull(target_point(report.query), Stations(report.lines[i])))
              => /\ ShowsHorsZone(report.lines[i])
                 /\ report.lines[i].data = OutOfCoverage
                 /\ ~Plotted(report.lines[i].horizon)

\* A run with a horizon out of zone and another horizon plotted.
C10_Witness ==
    /\ Ran
    /\ \E i \in DOMAIN report.lines :
          /\ HasDataset(report.lines[i])
          /\ Spans(Stations(report.lines[i]))
          /\ ~InHull(target_point(report.query), Stations(report.lines[i]))
          /\ ShowsHorsZone(report.lines[i])
    /\ report.plot_data # <<>>

====
